---- MODULE Spec2Model ----
(***************************************************************************)
(* A model of coder-mcp's runtime package: the two Runtime backends        *)
(* (DockerRuntime, LocalRuntime), the health poll they share               *)
(* (Runtime._wait_for_health), the endpoint descriptors they hand out, and *)
(* the directory TempWorkspace._setup builds.                              *)
(*                                                                         *)
(* Time is counted in seconds: the poll sleeps 1 s between probes and a    *)
(* probe is given a 1 s timeout, so whole seconds are the code's own       *)
(* resolution.  Outcomes of the container engine, of the hosted server and *)
(* of the network are chosen nondeterministically.                         *)
(***************************************************************************)
EXTENDS Integers, Sequences, FiniteSets, TLC

VARIABLES
    backend,        \* "docker" (DockerRuntime) or "local" (LocalRuntime)
    host_port,      \* DockerRuntime.host_port: None or an int
    port,           \* LocalRuntime.port: None or an int
    url,            \* LocalRuntime.url: NoUrl ("") or the port it embeds
    container_id,   \* DockerRuntime._container_id is set
    server,         \* LocalRuntime._server is set
    pc,             \* position of the coroutine running on the handle
    scope,          \* "none" | "entering" | "body" | "closed": the async-with scope
    starts,         \* number of start() calls made so far
    stops,          \* number of stop() calls made so far
    log,            \* the steps the current start() has issued, in order
    T,              \* timeout of the current poll
    t200,           \* the time from which /health answers 200 (Never: never)
    elapsed,        \* time.time() - start_time of the current poll
    entry_port,     \* host_port / port when the current start() was entered
    publish,        \* host port given to "docker run -p", or PublishAll for -P
    health_port,    \* the port in the URL handed to the poll
    engine_ports,   \* the host ports the engine mapped to 3000, one per address family
    launched,       \* the current start() launched a container / a server
    probe200,       \* a probe of the current start() answered 200 after the launch
    released,       \* a stop request was issued since the current start() launched
    last,           \* the last start()/stop() that completed: [op, raised, after, issued]
    desc,           \* the descriptor the caller was last returned since its last
                    \* start()/stop()
    poll_error,     \* the RuntimeError the current start()'s poll raised, if any
    template_dir,   \* TempWorkspace.template_dir: [exists, tree]
    injections,     \* TempWorkspace.injections, in the dict's order: [shape, dest]
    copy_method,    \* TempWorkspace.copy_method
    temp_dir,       \* TempWorkspace.temp_dir is set
    fs,             \* the tree at temp_dir: path -> node
    ws_pc,          \* position of _setup
    ws_i,           \* number of injections applied
    clone_left,     \* what the failed "git clone" had left in temp_dir, by name
    temp_dir_ctx,   \* per instance: the directory _temp_dir_ctx / temp_dir refer to
    disk,           \* the temporary directories that exist
    creator,        \* per directory that exists: the instance whose _setup made it
    torn,           \* directories that exist though their creator's _cleanup has run
    rm_failed,      \* directories that exist though a removal of them was attempted
    tw_last,        \* the last _setup/_cleanup call: [op, inst, had, kept]
    tasks,          \* per task of the event loop: [kind, step, phase]
    handles,        \* per handle: [kind, container_name, port, pc]
    bound,          \* per local port: the handle whose server or container holds it
    containers      \* per container name: the handle whose container bears it

\* The variables of a TempWorkspace.
wsvars == <<template_dir, injections, copy_method, temp_dir, fs, ws_pc, ws_i,
            clone_left>>

\* The variables of a Runtime handle.
rtvars == <<backend, host_port, port, url, container_id, server, pc, scope, starts,
            stops, log, T, t200, elapsed, entry_port, publish, health_port,
            engine_ports, launched, probe200, released, last, desc, poll_error>>

\* The variables of the TempWorkspace instances that share one temporary root.
twvars == <<temp_dir_ctx, disk, creator, torn, rm_failed, tw_last>>

\* The variables of the models of several objects side by side.
\* The variables of the handles that share one host and one container engine.
ownvars == <<handles, bound, containers>>

morevars == <<twvars, tasks, ownvars>>

vars == <<rtvars, wsvars, morevars>>

(* ------------------------------ values -------------------------------- *)

\* Python's None for an int-or-None field.
None == -1

\* LocalRuntime.url before __aenter__: the empty string.
NoUrl == -2

\* "docker run -P": publish every exposed port on a host port the engine picks.
PublishAll == -3

\* t200 of an endpoint that never answers 200.
Never == -4

\* health_port before any poll.
NoPoll == -5

\* Runtime._wait_for_health(timeout=30.0)
DefaultTimeout == 30

\* await asyncio.sleep(1)
Interval == 1

\* urlopen(url, timeout=1)
ProbeTimeout == 1

\* Number of start() calls a behaviour makes on the handle.
MaxStarts == 2

\* Number of stop() calls a behaviour makes on the handle.
MaxStops == 2

\* Latest time at which the server of a started handle begins to answer 200.
MaxHealthyAt == 1

\* Largest timeout of a direct poll.
MaxT == 6

\* Python's truth value of an int-or-None: None and 0 are false.
Truthy(p) == p # None /\ p # 0

\* The host ports a caller passes to the constructors (None: not given).
RequestedPorts == {None, 0, 8}

\* Ports the operating system or the engine may assign.
AssignedPorts == {7, 12}

(* ------------------- docker port: output and parsing ------------------ *)

Digits == <<"0", "1", "2", "3", "4", "5", "6", "7", "8", "9">>

DigitValue(c) == CHOOSE d \in 0..9 : Digits[d + 1] = c

IsDigit(c) == \E d \in 0..9 : Digits[d + 1] = c

\* str(n) for n >= 0.
RECURSIVE Dec(_)
Dec(n) == IF n < 10 THEN <<Digits[n + 1]>> ELSE Dec(n \div 10) \o <<Digits[(n % 10) + 1]>>

\* One line of "docker port <name> 3000" for an IPv4 mapping: 0.0.0.0:<port>
Line4(p) == <<"0", ".", "0", ".", "0", ".", "0", ":">> \o Dec(p)

\* One line for an IPv6 mapping: :::<port>
Line6(p) == <<":", ":", ":">> \o Dec(p)

\* stdout of "docker port <name> 3000" for the mappings ps (IPv4 first).
DockerPortStdout(ps) ==
    IF Len(ps) = 0 THEN <<>>
    ELSE IF Len(ps) = 1 THEN Line4(ps[1])
    ELSE Line4(ps[1]) \o <<"\n">> \o Line6(ps[2])

\* str.splitlines()
RECURSIVE SplitLines(_)
SplitLines(s) ==
    IF Len(s) = 0 THEN <<>>
    ELSE IF \E i \in 1..Len(s) : s[i] = "\n"
         THEN LET i == CHOOSE k \in 1..Len(s) :
                           s[k] = "\n" /\ \A j \in 1..(k - 1) : s[j] # "\n"
              IN  <<SubSeq(s, 1, i - 1)>> \o SplitLines(SubSeq(s, i + 1, Len(s)))
         ELSE <<s>>

\* ":" in line
HasColon(line) == \E i \in 1..Len(line) : line[i] = ":"

\* line.split(":")[-1]
AfterLastColon(line) ==
    IF HasColon(line)
    THEN LET i == CHOOSE k \in 1..Len(line) :
                      line[k] = ":" /\ \A j \in (k + 1)..Len(line) : line[j] # ":"
         IN  SubSeq(line, i + 1, Len(line))
    ELSE line

\* int(s) for an unsigned decimal; ParseError where int() raises ValueError.
ParseError == -6

RECURSIVE IntOfDigits(_)
IntOfDigits(s) ==
    IF Len(s) = 0 THEN 0
    ELSE 10 * IntOfDigits(SubSeq(s, 1, Len(s) - 1)) + DigitValue(s[Len(s)])

ParseInt(s) ==
    IF Len(s) > 0 /\ \A i \in 1..Len(s) : IsDigit(s[i]) THEN IntOfDigits(s) ELSE ParseError

\* The loop over port_output.splitlines(): the first line holding a ":" decides;
\* None when no line holds one.
PortOfFirstLine(line) == ParseInt(AfterLastColon(line))

\* Mutant of ParsePortOutput: the loop has no break, so the last line holding a
\* ":" decides.
ParsePortOutputLastLine(port_output) ==
    LET lines == SplitLines(port_output)
        hits  == {i \in 1..Len(lines) : HasColon(lines[i])}
    IN  IF hits = {} THEN None
        ELSE PortOfFirstLine(lines[CHOOSE i \in hits : \A j \in hits : i >= j])

ParsePortOutput(port_output) ==
    LET lines == SplitLines(port_output)
        hits  == {i \in 1..Len(lines) : HasColon(lines[i])}
    IN  IF hits = {} THEN None
        ELSE PortOfFirstLine(lines[CHOOSE i \in hits : \A j \in hits : i <= j])

\* The mappings the engine may report: none, IPv4 only, or IPv4 and IPv6
\* (the engine may give the two families different host ports).
EngineMappings ==
    {<<>>} \cup {<<p>> : p \in AssignedPorts}
           \cup {<<p, q>> : p \in AssignedPorts, q \in AssignedPorts}

(* --------------------------- tool filters ----------------------------- *)

\* types.CoderToolName
CoderToolName ==
    {"bash", "view_file", "list_directory", "create_file", "str_replace",
     "insert_lines", "delete_file", "undo_edit", "search_filenames", "search_content"}

\* The lists coder_mcp_readonly() passes.
ReadonlyToolNames == {"view_file", "list_directory", "search_filenames", "search_content"}

\* An argument of type list[CoderToolName] | None.
NoneArg == [given |-> FALSE, names |-> {}]

ListArg(names) == [given |-> TRUE, names |-> names]

\* Python's truth value of a list-or-None argument.
TruthyList(a) == a.given /\ a.names # {}

\* The allow and block arguments callers pass.
AllowArgs == {NoneArg, ListArg({}), ListArg({"bash", "view_file"})}

BlockArgs == {NoneArg, ListArg({}), ListArg({"bash"})}

\* Mutant of ToolFilter: the block-list is never put into the filter.
ToolFilterDropsBlock(allowed_tool_names, blocked_tool_names) ==
    [has_allowed |-> TruthyList(allowed_tool_names),
     allowed     |-> IF TruthyList(allowed_tool_names)
                     THEN allowed_tool_names.names ELSE {},
     has_blocked |-> FALSE,
     blocked     |-> {}]

\* tool_filter = {}; a key is set only for a truthy argument.
ToolFilter(allowed_tool_names, blocked_tool_names) ==
    [has_allowed |-> TruthyList(allowed_tool_names),
     allowed     |-> IF TruthyList(allowed_tool_names)
                     THEN allowed_tool_names.names ELSE {},
     has_blocked |-> TruthyList(blocked_tool_names),
     blocked     |-> IF TruthyList(blocked_tool_names)
                     THEN blocked_tool_names.names ELSE {}]

\* The address the descriptor is built from: f"http://localhost:{host_port}/mcp"
\* for DockerRuntime, self.url for LocalRuntime.
EndpointUrl == IF backend = "docker" THEN host_port ELSE url

\* The descriptor coder_mcp(allowed_tool_names, blocked_tool_names) returns.
Descriptor(kind, allowed_tool_names, blocked_tool_names) ==
    [kind   |-> kind,
     url    |-> EndpointUrl,
     filter |-> ToolFilter(allowed_tool_names, blocked_tool_names),
     allow  |-> allowed_tool_names,
     block  |-> blocked_tool_names]

NoDescriptor ==
    [kind |-> "none", url |-> NoUrl, filter |-> ToolFilter(NoneArg, NoneArg),
     allow |-> NoneArg, block |-> NoneArg]

\* The tools a client connected through a descriptor is shown: a static
\* tool_filter keeps a tool that is on the allow-list (when there is one) and not
\* on the block-list (when there is one).
Exposed(tool, f) ==
    /\ (f.has_allowed => tool \in f.allowed)
    /\ (f.has_blocked => tool \notin f.blocked)

(* ------------------------------ start() ------------------------------- *)

\* No error was raised by the poll.
NoError == [raised |-> FALSE, url |-> NoPoll, timeout |-> 0, logs |-> FALSE]

\* RuntimeError(f"Server at {url} failed to become healthy in {timeout}s."): it
\* names the url and the timeout, and carries nothing else.
TimeoutError(u, timeout) == [raised |-> TRUE, url |-> u, timeout |-> timeout, logs |-> FALSE]

NoCall == [op |-> "none", raised |-> "no", after |-> "none", issued |-> FALSE]

\* What the caller last saw of the handle: the case a stop() is called in.
CallerSaw ==
    IF last.op = "none" THEN "never_started"
    ELSE IF last.op = "stop" THEN "stop"
    ELSE IF last.raised = "no" THEN "start_ok" ELSE "start_failed"

\* The log entry that follows a step that failed.
Outcome(ok) == IF ok THEN <<>> ELSE <<"failed">>

\* Mutant of Raise: the failed step is not fatal, __aenter__ starts over.
RaiseRetries(kind) ==
    /\ pc' = "enter"
    /\ UNCHANGED <<last, scope>>

\* An exception leaves __aenter__: the coroutine ends, and an async-with scope
\* that was being entered ends without __aexit__ being called.
Raise(kind) ==
    /\ pc' = "idle"
    /\ last' = [op |-> "start", raised |-> kind, after |-> CallerSaw, issued |-> FALSE]
    /\ scope' = IF scope = "entering" THEN "closed" ELSE scope

\* The caller enters the handle: "async with runtime" (scoped) or a direct call.
StartCall ==
    /\ pc = "idle"
    /\ scope \in {"none", "closed"}
    /\ starts < MaxStarts
    /\ \E scoped \in BOOLEAN : scope' = IF scoped THEN "entering" ELSE "none"
    /\ starts' = starts + 1
    /\ pc' = "enter"
    /\ log' = <<>>
    /\ entry_port' = IF backend = "docker" THEN host_port ELSE port
    /\ publish' = None
    /\ health_port' = NoPoll
    /\ engine_ports' = <<>>
    /\ launched' = FALSE
    /\ probe200' = FALSE
    /\ released' = FALSE
    /\ elapsed' = 0
    /\ desc' = NoDescriptor
    /\ poll_error' = NoError
    /\ UNCHANGED <<wsvars, morevars, backend, host_port, port, url, container_id, server, stops, T,
                   t200, last>>

\* DockerRuntime.__aenter__, steps 0 and 1: chmod_recursive(workspace_dir), then
\* "docker inspect --type=image"; a non-zero return code raises.
DockerInspect ==
    /\ pc = "enter"
    /\ backend = "docker"
    /\ \E found \in BOOLEAN :
         /\ log' = log \o <<"chmod", "inspect">> \o Outcome(found)
         /\ IF found
            THEN pc' = "launch" /\ UNCHANGED <<last, scope>>
            ELSE Raise("ImageNotFound")
    /\ UNCHANGED <<wsvars, morevars, poll_error,
                   backend, host_port, port, url, container_id, server, starts, stops,
                   T, t200, elapsed, entry_port, publish, health_port, engine_ports,
                   launched, probe200, released, desc>>

\* The publish argument of "docker run": -p {host_port}:3000 or -P.
PublishSpec == IF Truthy(host_port) THEN host_port ELSE PublishAll

\* Mutant of NeedsDiscovery: the engine is asked whatever host_port holds.
AlwaysDiscovers == TRUE

\* Whether __aenter__ goes on to ask the engine for the port.
NeedsDiscovery == ~Truthy(host_port)

\* DockerRuntime.__aenter__, steps 2 and 3: "docker run -d --name ... --rm";
\* a non-zero return code raises, else the printed id is kept.
DockerRun ==
    /\ pc = "launch"
    /\ publish' = PublishSpec
    /\ \E ok \in BOOLEAN :
         /\ log' = log \o <<"run">> \o Outcome(ok)
         /\ IF ok
            THEN /\ container_id' = TRUE
                 /\ launched' = TRUE
                 /\ pc' = IF NeedsDiscovery THEN "discover" ELSE "health"
                 /\ UNCHANGED <<last, scope>>
            ELSE /\ Raise("LaunchFailed")
                 /\ UNCHANGED <<container_id, launched>>
    /\ UNCHANGED <<wsvars, morevars, poll_error,
                   backend, host_port, port, url, server, starts, stops, T, t200,
                   elapsed, entry_port, health_port, engine_ports, probe200,
                   released, desc>>

\* DockerRuntime.__aenter__, port discovery: sleep 0.5 s, "docker port <name> 3000",
\* parse its stdout.
DockerDiscover ==
    /\ pc = "discover"
    /\ \E ok \in BOOLEAN, ps \in EngineMappings :
         LET parsed == ParsePortOutput(DockerPortStdout(ps))
             resolved == ok /\ parsed # ParseError /\ Truthy(parsed)
         IN  /\ engine_ports' = ps
             /\ log' = log \o <<"sleep", "port">> \o Outcome(resolved)
             /\ IF ~ok
                THEN Raise("PortDiscoveryFailed") /\ UNCHANGED host_port
                ELSE IF parsed = ParseError
                     THEN Raise("ValueError") /\ UNCHANGED host_port
                     ELSE /\ host_port' = parsed
                          /\ IF Truthy(parsed)
                             THEN pc' = "health" /\ UNCHANGED <<last, scope>>
                             ELSE Raise("PortDiscoveryFailed")
    /\ UNCHANGED <<wsvars, morevars, poll_error,
                   backend, port, url, container_id, server, starts, stops, T, t200,
                   elapsed, entry_port, publish, health_port, launched, probe200,
                   released, desc>>

\* LocalRuntime._find_free_port(): the operating system picks the port.
FreePorts == AssignedPorts

\* LocalRuntime.__aenter__ up to the poll: choose the port, build the url, create
\* the server and start it; an exception of CServer.start() propagates.
LocalServerStart ==
    /\ pc = "enter"
    /\ backend = "local"
    /\ \E p \in FreePorts, ok \in BOOLEAN :
         /\ log' = log \o <<"server_start">> \o Outcome(ok)
         /\ port' = IF port = None THEN p ELSE port
         /\ url' = port'
         /\ server' = TRUE
         /\ IF ok
            THEN launched' = TRUE /\ pc' = "health" /\ UNCHANGED <<last, scope>>
            ELSE Raise("LaunchFailed") /\ UNCHANGED launched
    /\ UNCHANGED <<wsvars, morevars, poll_error,
                   backend, host_port, container_id, starts, stops, T, t200, elapsed,
                   entry_port, publish, health_port, engine_ports, probe200,
                   released, desc>>

\* The port of the health URL: f"http://localhost:{host_port}/health" for
\* DockerRuntime, f"http://localhost:{port}/health" for LocalRuntime.
HealthUrlPort == IF backend = "docker" THEN host_port ELSE port

\* __aenter__ calls _wait_for_health with the default timeout.
HealthBegin ==
    /\ pc = "health"
    /\ log' = log \o <<"poll">>
    /\ health_port' = HealthUrlPort
    /\ T' = DefaultTimeout
    /\ elapsed' = 0
    /\ pc' = "poll"
    /\ UNCHANGED <<wsvars, morevars, poll_error,
                   backend, host_port, port, url, container_id, server, scope, starts,
                   stops, t200, entry_port, publish, engine_ports, launched,
                   probe200, released, last, desc>>

(* --------------------- Runtime._wait_for_health ----------------------- *)

\* while time.time() - start_time < timeout
LoopGuard(e, timeout) == e < timeout

\* What one probe started at time e and lasting d can report: 200 only when the
\* endpoint answers 200 by the time the reply comes; anything else (refused,
\* timed out, another code) only when the probe was started before that time.
CanAnswer200(e, d) == t200 # Never /\ e + d >= t200

CanFail(e) == t200 = Never \/ e < t200

\* What a probe can end with: a response with code 200 or another code, a
\* refused connection (URLError), or no answer within the probe's timeout.
Replies == {"200", "503", "refused", "timeout"}

\* How long a probe with that end can take.
ReplyTimes(reply) == IF reply = "timeout" THEN {ProbeTimeout} ELSE 0..ProbeTimeout

\* Mutant of Check: any response counts, whatever its code.
CheckAnyResponse(reply) == reply \in {"200", "503"}

\* check(): response.getcode() == 200; an exception of urlopen is caught by the
\* loop, which goes on as for False.
Check(reply) == reply = "200"

\* Mutant of Caught: as "except URLError" would do, a probe that times out is
\* let through.
CaughtUrlErrorOnly(reply) == reply # "timeout"

\* except Exception: pass.  Whatever urlopen raises (URLError for a refused
\* connection, HTTPError for a 503, a timeout) is an Exception.
Caught(reply) == TRUE

\* One pass of the loop: the probe runs in the executor for d <= 1 s; on a 200
\* the poll returns; otherwise the exception or the False is dropped and the
\* loop sleeps one interval.
PollProbe ==
    /\ pc = "poll"
    /\ LoopGuard(elapsed, T)
    /\ \E reply \in Replies :
         \E d \in ReplyTimes(reply) :
           /\ IF reply = "200" THEN CanAnswer200(elapsed, d) ELSE CanFail(elapsed)
           /\ IF Check(reply)
              THEN /\ elapsed' = elapsed + d
                   /\ probe200' = (reply = "200")
                   /\ pc' = "pollok"
              ELSE IF Caught(reply)
              THEN /\ elapsed' = elapsed + d + Interval
                   /\ UNCHANGED <<probe200, pc>>
              ELSE /\ elapsed' = elapsed + d
                   /\ pc' = "proberaised"
                   /\ UNCHANGED probe200
    /\ UNCHANGED <<wsvars, morevars, poll_error,
                   backend, host_port, port, url, container_id, server, scope, starts,
                   stops, log, T, t200, entry_port, publish, health_port,
                   engine_ports, launched, released, last, desc>>

\* The loop ends without a 200: raise RuntimeError("... failed to become healthy").
PollTimeout ==
    /\ pc = "poll"
    /\ ~LoopGuard(elapsed, T)
    /\ pc' = "pollraised"
    /\ log' = log \o <<"timeout">>
    /\ poll_error' = TimeoutError(health_port, T)
    /\ UNCHANGED <<wsvars, morevars, backend, host_port, port, url, container_id, server, scope, starts,
                   stops, T, t200, elapsed, entry_port, publish, health_port,
                   engine_ports, launched, probe200, released, last, desc>>

\* The poll returned: __aenter__ returns self, and a scope being entered is open.
StartReturn ==
    /\ pc = "pollok"
    /\ pc' = "idle"
    /\ last' = [op |-> "start", raised |-> "no", after |-> CallerSaw, issued |-> FALSE]
    /\ scope' = IF scope = "entering" THEN "body" ELSE scope
    /\ UNCHANGED <<wsvars, morevars, poll_error,
                   backend, host_port, port, url, container_id, server, starts, stops,
                   log, T, t200, elapsed, entry_port, publish, health_port,
                   engine_ports, launched, probe200, released, desc>>

\* How "docker logs <name>" can end: it prints the logs, it exits non-zero (its
\* return code is not looked at), or the process cannot be spawned.
LogsOutcomes == {"ok", "nonzero", "spawn_error"}

\* What leaves the except block: "raise e", the caught RuntimeError as it is,
\* unless create_subprocess_exec raised before it.
RaisedAfterLogs(res) == IF res = "spawn_error" THEN "OSError" ELSE "HealthCheckTimeout"

\* DockerRuntime._wait_for_health: on the RuntimeError, run "docker logs <name>",
\* log its stdout, and raise the caught error; an error of the spawn propagates
\* in its place.
DockerHealthTimeout ==
    /\ pc = "pollraised"
    /\ backend = "docker"
    /\ \E res \in LogsOutcomes :
         /\ log' = log \o <<"logs">> \o Outcome(res = "ok")
         /\ Raise(RaisedAfterLogs(res))
    /\ UNCHANGED <<wsvars, morevars, poll_error,
                   backend, host_port, port, url, container_id, server, starts, stops,
                   T, t200, elapsed, entry_port, publish, health_port, engine_ports,
                   launched, probe200, released, desc>>

\* LocalRuntime uses the base poll: its RuntimeError leaves __aenter__.
LocalHealthTimeout ==
    /\ pc = "pollraised"
    /\ backend = "local"
    /\ Raise("HealthCheckTimeout")
    /\ UNCHANGED <<wsvars, morevars, poll_error,
                   backend, host_port, port, url, container_id, server, starts, stops,
                   log, T, t200, elapsed, entry_port, publish, health_port,
                   engine_ports, launched, probe200, released, desc>>

(* ------------------------------- stop() ------------------------------- *)

\* Mutant of HoldsResource: the handle is taken to hold nothing.
HoldsNothing == FALSE

\* if self._container_id: / if self._server:
HoldsResource == IF backend = "docker" THEN container_id ELSE server

\* How the release can end.  DockerRuntime: the "docker stop" process cannot be
\* spawned (create_subprocess_exec raises), or it runs and its return code is
\* not looked at.  LocalRuntime: CServer.stop() returns or raises.
ReleaseOutcomes ==
    IF backend = "docker" THEN {"stopped", "nonzero", "spawn_error"}
    ELSE {"stopped", "stop_error"}

\* The outcomes __aexit__ lets out as an exception: neither backend catches any.
Propagates(outcome) == outcome \in {"spawn_error", "stop_error"}

\* A stop request reached the engine / the server.
Issued(outcome) == outcome # "spawn_error"

\* self._container_id = None follows the wait; LocalRuntime keeps self._server.
ContainerIdAfter(outcome) == IF outcome = "spawn_error" THEN container_id ELSE FALSE

\* __aexit__ of either backend, called by the scope's end (by_scope) or directly.
Stop(by_scope) ==
    /\ pc = "idle"
    /\ stops < MaxStops
    /\ IF by_scope THEN scope = "body" ELSE scope # "body"
    /\ stops' = stops + 1
    /\ scope' = IF by_scope THEN "closed" ELSE scope
    /\ IF HoldsResource
       THEN \E outcome \in ReleaseOutcomes :
              /\ container_id' = IF backend = "docker"
                                 THEN ContainerIdAfter(outcome) ELSE container_id
              /\ released' = (released \/ (launched /\ Issued(outcome)))
              /\ last' = [op |-> "stop",
                          raised |-> IF Propagates(outcome) THEN outcome ELSE "no",
                          after |-> CallerSaw, issued |-> Issued(outcome)]
       ELSE /\ UNCHANGED <<container_id, released>>
            /\ last' = [op |-> "stop", raised |-> "no", after |-> CallerSaw,
                        issued |-> FALSE]
    /\ desc' = NoDescriptor
    /\ UNCHANGED <<wsvars, morevars, poll_error,
                   backend, host_port, port, url, server, pc, starts, log, T, t200,
                   elapsed, entry_port, publish, health_port, engine_ports,
                   launched, probe200>>

\* The body of "async with runtime" ends (normally or by an exception).
ScopeExit == Stop(TRUE)

\* A direct call of __aexit__ outside a scope.
StopCall == Stop(FALSE)

(* ---------------------------- descriptors ----------------------------- *)

\* coder_mcp(allowed_tool_names, blocked_tool_names): builds the descriptor;
\* no connection is opened and the handle is not changed.
CoderMcp ==
    /\ pc = "idle"
    /\ \E a \in AllowArgs, b \in BlockArgs : desc' = Descriptor("full", a, b)
    /\ UNCHANGED <<wsvars, morevars, poll_error,
                   backend, host_port, port, url, container_id, server, pc, scope,
                   starts, stops, log, T, t200, elapsed, entry_port, publish,
                   health_port, engine_ports, launched, probe200, released, last>>

\* Mutant of ReadonlyAllowed: bash slipped into the read-only list.
ReadonlyAllowedWithBash == ListArg(ReadonlyToolNames \cup {"bash"})

\* The argument coder_mcp_readonly() passes as allowed_tool_names.
ReadonlyAllowed == ListArg(ReadonlyToolNames)

\* coder_mcp_readonly(): coder_mcp with the fixed allow-list and no block-list.
CoderMcpReadonly ==
    /\ pc = "idle"
    /\ desc' = Descriptor("readonly", ReadonlyAllowed, NoneArg)
    /\ UNCHANGED <<wsvars, morevars, poll_error,
                   backend, host_port, port, url, container_id, server, pc, scope,
                   starts, stops, log, T, t200, elapsed, entry_port, publish,
                   health_port, engine_ports, launched, probe200, released, last>>

(* --------------------------- TempWorkspace ---------------------------- *)

\* Entry names of the modelled trees, besides ".git".
Names == {"a", "b"}

\* Longest path below a tree's root.
MaxDepth == 3

\* Most entries (below its root) a template holds.
MaxTemplateEntries == 2

\* Most injections a workspace is given.
MaxInjections == 2

\* Injections of a workspace made with copy_method "clone".
MaxCloneInjections == 1

\* TempWorkspace objects in one process.
MaxInstances == 2

\* Names that mkdtemp can give out in the temporary root.
MaxDirNames == 3

\* Tasks started together on one event loop.
MaxTasks == 2

\* Handles created without an explicit port or name.
MaxHandles == 2

\* Values of the random suffix of a container name.
MaxNames == 2

\* Local ports that the system and the engine give out.
MaxPorts == 2

\* The version-control directory at a tree's root.
GitPath == <<".git">>

\* Paths relative to a root; <<>> is the root itself.
Paths == (UNION {[1..n -> Names] : n \in 0..MaxDepth}) \cup {GitPath}

IsPrefix(p, q) == Len(p) <= Len(q) /\ SubSeq(q, 1, Len(p)) = p

\* q relative to its prefix p.
Rel(q, p) == SubSeq(q, Len(p) + 1, Len(q))

Parent(p) == SubSeq(p, 1, Len(p) - 1)

\* A node of a tree.  mode: "src" as copied from a source (copystat), "default"
\* as mkdir or mkdtemp make it, "full" after chmod 777.
Absent == [kind |-> "none", data |-> 0, mode |-> "none"]

Dir(mode) == [kind |-> "dir", data |-> 0, mode |-> mode]

File(data, mode) == [kind |-> "file", data |-> data, mode |-> mode]

EmptyTree == [p \in Paths |-> Absent]

\* The paths a template may hold entries at.
TemplatePaths == {<<"a">>, <<"b">>, <<"a", "a">>, <<"a", "b">>, GitPath}

\* The entry sets of the templates: closed under parent, at most
\* MaxTemplateEntries of them.
TemplateShapes ==
    {E \in SUBSET TemplatePaths :
        /\ Cardinality(E) <= MaxTemplateEntries
        /\ \A p \in E : Len(p) > 1 => Parent(p) \in E}

\* The template trees: a directory whose entries are files (data 0) or
\* directories; an entry with children is a directory.
TemplateTrees ==
    UNION {
        {[p \in Paths |->
            IF p = <<>> THEN Dir("src")
            ELSE IF p \notin E THEN Absent
            ELSE IF p \in D THEN Dir("src") ELSE File(0, "src")] :
         D \in {X \in SUBSET E : \A p \in E : Len(p) > 1 => Parent(p) \in X}} :
        E \in TemplateShapes}

\* The sources of injections: a file, an empty directory, or a directory
\* holding one file; the k-th injection's files carry data k.
SourceShapes == {"file", "dir", "dir_with_file"}

SourceTree(shape, k) ==
    [p \in Paths |->
        IF p = <<>> THEN (IF shape = "file" THEN File(k, "src") ELSE Dir("src"))
        ELSE IF p = <<"a">> /\ shape = "dir_with_file" THEN File(k, "src")
        ELSE Absent]

\* The destinations of injections, relative to the workspace root.
Destinations == {<<>>, <<"a">>, <<"a", "b">>}

InjectionLists ==
    UNION {[1..n -> [shape : SourceShapes, dest : Destinations]] : n \in 0..MaxInjections}

\* path.exists()
Exists(tree, p) == tree[p].kind # "none"

\* path.is_dir()
IsDir(tree, p) == tree[p].kind = "dir"

\* shutil.rmtree(p): p and everything below it.
RmTree(tree, p) == [q \in Paths |-> IF IsPrefix(p, q) THEN Absent ELSE tree[q]]

\* p.unlink()
Unlink(tree, p) == [q \in Paths |-> IF q = p THEN Absent ELSE tree[q]]

\* dest.parent.mkdir(parents=True, exist_ok=True) raises when the parent, or a
\* directory above it, exists and is not a directory.
MkdirRaises(tree, p) ==
    \E q \in Paths : IsPrefix(q, p) /\ q # p /\ Exists(tree, q) /\ ~IsDir(tree, q)

\* dest.parent.mkdir(parents=True, exist_ok=True): the missing directories above
\* p are made.
MkdirParents(tree, p) ==
    [q \in Paths |->
        IF IsPrefix(q, p) /\ q # p /\ ~Exists(tree, q) THEN Dir("default") ELSE tree[q]]

\* shutil.copytree(src, dst, dirs_exist_ok=True) raises when an entry of src
\* meets an entry of the other kind at its place under dst.
CopyTreeRaises(tree, src, dst) ==
    \E q \in Paths :
        /\ IsPrefix(dst, q)
        /\ Exists(src, Rel(q, dst))
        /\ Exists(tree, q)
        /\ tree[q].kind # src[Rel(q, dst)].kind

\* shutil.copytree(src, dst, dirs_exist_ok=True): every entry of src is written
\* at its place under dst, with the source's mode; what else is under dst stays.
CopyTree(tree, src, dst) ==
    [q \in Paths |->
        IF IsPrefix(dst, q) /\ Exists(src, Rel(q, dst)) THEN src[Rel(q, dst)]
        ELSE tree[q]]

\* shutil.copy2(src, dst) for a file src and a dst that does not exist.
CopyFile(tree, src, dst) == [q \in Paths |-> IF q = dst THEN src[<<>>] ELSE tree[q]]

\* Mutant of CleanDestination: what is at the destination is left there.
KeepDestination(tree, dest) == tree

\* Step 3 for one injection: the clean-up of the destination.
CleanDestination(tree, dest) ==
    IF Exists(tree, dest)
    THEN (IF IsDir(tree, dest) THEN RmTree(tree, dest) ELSE Unlink(tree, dest))
    ELSE tree

\* Step 3 for one injection, after the clean-up and the parents: the copy.
CopySource(tree, src, dest) ==
    IF IsDir(src, <<>>) THEN CopyTree(tree, src, dest) ELSE CopyFile(tree, src, dest)

\* One injection raises: the parents cannot be made, or the copy meets a
\* conflicting entry.
InjectRaises(tree, src, dest) ==
    LET cleaned == CleanDestination(tree, dest)
    IN  \/ MkdirRaises(cleaned, dest)
        \/ IsDir(src, <<>>) /\ CopyTreeRaises(MkdirParents(cleaned, dest), src, dest)

\* One injection, whole.
Inject(tree, src, dest) ==
    CopySource(MkdirParents(CleanDestination(tree, dest), dest), src, dest)

\* Mutant of ChmodAll: only what lies below the root is changed (as rglob("*")
\* would list it).
ChmodBelowRoot(tree) ==
    [q \in Paths |->
        IF Exists(tree, q) /\ q # <<>> THEN [tree[q] EXCEPT !.mode = "full"] ELSE tree[q]]

\* chmod -R 777 temp_dir: every entry, the root included.
ChmodAll(tree) ==
    [q \in Paths |-> IF Exists(tree, q) THEN [tree[q] EXCEPT !.mode = "full"] ELSE Absent]

\* No TempWorkspace is in use: there is no tree to speak of.
NoWorkspace ==
    /\ template_dir = [exists |-> FALSE, tree |-> <<>>]
    /\ injections = <<>>
    /\ copy_method = "copy"
    /\ temp_dir = FALSE
    /\ fs = <<>>
    /\ ws_pc = "new"
    /\ ws_i = 0
    /\ clone_left = "no_clone"

\* A TempWorkspace after __init__: nothing created.
WsFresh ==
    /\ temp_dir = FALSE
    /\ fs = EmptyTree
    /\ ws_pc = "new"
    /\ ws_i = 0
    /\ clone_left = "no_clone"

\* _setup step 1: tempfile.TemporaryDirectory(prefix=...) makes the directory.
WsCreate ==
    /\ ws_pc = "new"
    /\ temp_dir' = TRUE
    /\ fs' = [EmptyTree EXCEPT ![<<>>] = Dir("default")]
    /\ ws_pc' = "template"
    /\ UNCHANGED <<rtvars, morevars, clone_left, template_dir, injections, copy_method, ws_i>>

\* _setup step 2 with copy_method other than "clone": copytree of the template
\* when there is one.
WsCopyTemplate ==
    /\ ws_pc = "template"
    /\ copy_method = "copy"
    /\ IF template_dir.exists
       THEN IF CopyTreeRaises(fs, template_dir.tree, <<>>)
            THEN ws_pc' = "raised" /\ UNCHANGED fs
            ELSE ws_pc' = "inject" /\ fs' = CopyTree(fs, template_dir.tree, <<>>)
       ELSE ws_pc' = "inject" /\ UNCHANGED fs
    /\ UNCHANGED <<rtvars, morevars, clone_left, template_dir, injections, copy_method, temp_dir, ws_i>>

\* "git clone" can succeed only from a source that holds a .git directory.
IsRepository(tree) == IsDir(tree, GitPath)

\* git tracks files, and directories only through the files below them.
Tracked(tree, q) ==
    /\ q # <<>> /\ ~IsPrefix(GitPath, q)
    /\ \E r \in Paths : IsPrefix(q, r) /\ tree[r].kind = "file"

\* What a successful "git clone template_dir temp_dir" writes: .git and the
\* checked-out tree, with the modes of newly made entries.
CloneOf(tree) ==
    [q \in Paths |->
        IF q = <<>> \/ q = GitPath THEN Dir("default")
        ELSE IF Tracked(tree, q) THEN [tree[q] EXCEPT !.mode = "default"]
        ELSE Absent]

\* What a failed "git clone" may leave in temp_dir: nothing, a .git directory,
\* or a .git directory and part of a checkout.
CloneLeftovers == {"nothing", "git", "git_and_file"}

\* temp_dir as the failed clone left it.
LeftTree(left) ==
    [q \in Paths |->
        IF q = <<>> THEN Dir("default")
        ELSE IF q = GitPath /\ left # "nothing" THEN Dir("default")
        ELSE IF q = <<"a">> /\ left = "git_and_file" THEN File(9, "default")
        ELSE Absent]

\* Mutant of ClearTempDir: only the files at the top of temp_dir are removed.
ClearFilesOnly(tree) ==
    [q \in Paths |-> IF Len(q) = 1 /\ tree[q].kind = "file" THEN Absent ELSE tree[q]]

\* for item in temp_dir.iterdir(): rmtree(item) or item.unlink(): temp_dir
\* itself stays, nothing is left in it.
ClearTempDir(tree) ==
    [q \in Paths |-> IF q = <<>> THEN tree[q] ELSE Absent]

\* _setup step 2 with copy_method "clone": git clone (check=True); on
\* CalledProcessError the directory is cleared and the template is copied.
WsCloneTemplate ==
    /\ ws_pc = "template"
    /\ copy_method = "clone"
    /\ IF template_dir.exists
       THEN \/ /\ IsRepository(template_dir.tree)
               /\ fs' = CloneOf(template_dir.tree)
               /\ ws_pc' = "inject"
               /\ UNCHANGED clone_left
            \/ \E left \in CloneLeftovers :
                 LET cleared == ClearTempDir(LeftTree(left))
                 IN  /\ clone_left' = left
                     /\ IF CopyTreeRaises(cleared, template_dir.tree, <<>>)
                        THEN ws_pc' = "clone_raised" /\ fs' = cleared
                        ELSE /\ ws_pc' = "inject"
                             /\ fs' = CopyTree(cleared, template_dir.tree, <<>>)
       ELSE ws_pc' = "inject" /\ UNCHANGED <<fs, clone_left>>
    /\ UNCHANGED <<rtvars, morevars, template_dir, injections, temp_dir, ws_i>>
    /\ UNCHANGED copy_method

\* _setup step 3, one pass of the loop over injections.items().
WsInject ==
    /\ ws_pc = "inject"
    /\ ws_i < Len(injections)
    /\ LET k == ws_i + 1
           src == SourceTree(injections[k].shape, k)
           dest == injections[k].dest
       IN  IF InjectRaises(fs, src, dest)
           THEN ws_pc' = "raised" /\ UNCHANGED <<fs, ws_i>>
           ELSE fs' = Inject(fs, src, dest) /\ ws_i' = k /\ UNCHANGED ws_pc
    /\ UNCHANGED <<rtvars, morevars, clone_left, template_dir, injections, copy_method, temp_dir>>

\* _setup step 4: "git init" in temp_dir when it holds no .git (check=True: a
\* failure raises); the config, add and commit that follow write inside .git
\* only and their failures are ignored.
WsGitInit ==
    /\ ws_pc = "inject"
    /\ ws_i = Len(injections)
    /\ IF Exists(fs, GitPath)
       THEN ws_pc' = "chmod" /\ UNCHANGED fs
       ELSE \E ok \in BOOLEAN :
              IF ok /\ IsDir(fs, <<>>)
              THEN ws_pc' = "chmod" /\ fs' = [fs EXCEPT ![GitPath] = Dir("default")]
              ELSE ws_pc' = "raised" /\ UNCHANGED fs
    /\ UNCHANGED <<rtvars, morevars, clone_left, template_dir, injections, copy_method, temp_dir, ws_i>>

\* _setup step 5: chmod -R 777 temp_dir, then return temp_dir.
WsChmod ==
    /\ ws_pc = "chmod"
    /\ fs' = ChmodAll(fs)
    /\ ws_pc' = "ready"
    /\ UNCHANGED <<rtvars, morevars, clone_left, template_dir, injections, copy_method, temp_dir, ws_i>>

(* ---------------- TempWorkspace instances, side by side ---------------- *)

\* The TempWorkspace objects of the process.
Instances == 1..MaxInstances

\* The names the temporary root can hold.
DirNames == 1..MaxDirNames

\* temp_dir / _temp_dir_ctx is None.
NoDir == 0

\* No instance made the directory: it does not exist.
NoInstance == 0

\* tempfile.TemporaryDirectory() makes its directory with mkdtemp, which takes a
\* name that no existing entry of the temporary root has.
FreshNames(existing) == DirNames \ existing

\* What removing a temporary directory can come to: TemporaryDirectory.cleanup()
\* removes it; cleanup() raises and shutil.rmtree(ignore_errors=True) removes it;
\* cleanup() raises and the forced removal, which reports nothing, leaves it.
CleanupOutcomes == {"removed", "forced_removed", "left"}

\* What becomes of the directory of a TemporaryDirectory object that is dropped
\* without cleanup(): its finalizer removes the directory, or fails to.
FinalizerOutcomes == {"removed", "left"}

NoTwCall == [op |-> "none", inst |-> NoInstance, had |-> FALSE, kept |-> TRUE]

\* No TempWorkspace has made a directory.
NoInstances ==
    /\ temp_dir_ctx = [i \in Instances |-> NoDir]
    /\ disk = {}
    /\ creator = [d \in DirNames |-> NoInstance]
    /\ torn = {}
    /\ rm_failed = {}
    /\ tw_last = NoTwCall

\* _setup of instance i as far as the temporary root sees it: a new
\* TemporaryDirectory is made and the instance's two fields are set to it. The
\* object the instance held before, if any, is dropped by the assignment and its
\* finalizer runs. What _setup does inside the new directory, and whether it
\* raises there, leaves the fields as they are.
TwSetup(i) ==
    \E d \in FreshNames(disk), fin \in FinalizerOutcomes :
        LET old == temp_dir_ctx[i]
            gone == IF old # NoDir /\ fin = "removed" THEN {old} ELSE {}
            stays == IF old # NoDir /\ fin = "left" THEN {old} ELSE {}
        IN  /\ (old = NoDir => fin = "removed")
            /\ temp_dir_ctx' = [temp_dir_ctx EXCEPT ![i] = d]
            /\ disk' = (disk \cup {d}) \ gone
            /\ creator' = [e \in DirNames |->
                              IF e = d THEN i
                              ELSE IF e \in gone THEN NoInstance ELSE creator[e]]
            /\ torn' = torn \ gone
            /\ rm_failed' = (rm_failed \cup stays) \ gone
            /\ tw_last' = [op |-> "setup", inst |-> i, had |-> old # NoDir,
                           kept |-> gone = {}]
            /\ UNCHANGED <<rtvars, wsvars, tasks, ownvars>>

\* The fields of the instance after _cleanup's "finally".
ReferenceAfterCleanup(d, outcome) == NoDir

\* _cleanup of instance i: with no TemporaryDirectory held it does nothing;
\* otherwise the directory is removed, by cleanup() or by the forced removal, or
\* is left when both fail, and the fields are cleared in every case.
TwCleanup(i) ==
    LET d == temp_dir_ctx[i] IN
    IF d = NoDir
       THEN /\ tw_last' = [op |-> "cleanup", inst |-> i, had |-> FALSE, kept |-> TRUE]
            /\ UNCHANGED <<temp_dir_ctx, disk, creator, torn, rm_failed>>
            /\ UNCHANGED <<rtvars, wsvars, tasks, ownvars>>
       ELSE \E outcome \in CleanupOutcomes :
                LET gone == IF outcome = "left" THEN {} ELSE {d}
                    disk2 == disk \ gone
                IN  /\ temp_dir_ctx' =
                           [temp_dir_ctx EXCEPT ![i] = ReferenceAfterCleanup(d, outcome)]
                    /\ disk' = disk2
                    /\ creator' = [e \in DirNames |->
                                      IF e \in gone THEN NoInstance ELSE creator[e]]
                    /\ torn' = {e \in disk2 : e \in torn \/ creator[e] = i}
                    /\ rm_failed' = (rm_failed \ gone)
                                        \cup (IF outcome = "left" THEN {d} ELSE {})
                    /\ tw_last' = [op |-> "cleanup", inst |-> i, had |-> TRUE,
                                   kept |-> gone = {}]
                    /\ UNCHANGED <<rtvars, wsvars, tasks, ownvars>>

(* ------------------- tasks sharing one event loop --------------------- *)

\* The tasks that asyncio.gather runs on the one event loop of the process.
Tasks == 1..MaxTasks

\* The operations a task goes through, in the order of the code: a
\* DockerRuntime scope, a LocalRuntime scope, and a TempWorkspace scope entered
\* with "async with".
Program(kind) ==
    CASE kind = "docker" ->
           <<"chmod_recursive", "image_inspect", "docker_run", "docker_port",
             "probe", "sleep", "docker_stop">>
      [] kind = "local" ->
           <<"find_free_port", "server_start", "probe", "sleep", "server_stop">>
      [] kind = "workspace" -> <<"ws_setup", "ws_cleanup">>

\* Where the code runs each operation: in the coroutine itself, on the loop's
\* thread ("loop"); in a child process that the coroutine awaits ("subprocess");
\* in the default executor ("executor") or a worker thread ("thread"); as a
\* timer of the loop ("timer"); as an awaited coroutine of the server object
\* ("awaited").
Context(op) ==
    CASE op = "chmod_recursive" -> "loop"
      [] op = "find_free_port" -> "loop"
      [] op \in {"image_inspect", "docker_run", "docker_port", "docker_stop"}
           -> "subprocess"
      [] op = "probe" -> "executor"
      [] op = "sleep" -> "timer"
      [] op \in {"ws_setup", "ws_cleanup"} -> "thread"
      [] op \in {"server_start", "server_stop"} -> "awaited"

\* The operations that block at the operating-system level: the recursive
\* permission change, the container engine's processes, the server's process,
\* the urlopen probe, and the copy, clone, chmod and removal of a workspace.
OsBlocking ==
    {"chmod_recursive", "image_inspect", "docker_run", "docker_port", "docker_stop",
     "server_start", "server_stop", "probe", "ws_setup", "ws_cleanup"}

\* The operation task k is at.
Op(k) == Program(tasks[k].kind)[tasks[k].step]

\* The loop's thread is running no coroutine.
LoopFree == \A k \in Tasks : tasks[k].phase # "running"

\* Task k is at step n of its program, or past its end.
At(k, n) ==
    IF n > Len(Program(tasks[k].kind))
       THEN [tasks EXCEPT ![k].phase = "done"]
       ELSE [tasks EXCEPT ![k].step = n, ![k].phase = "ready"]

\* The loop resumes task k at an operation that the coroutine performs itself:
\* until it returns, the loop's thread runs nothing else.
RunOnLoop(k) ==
    /\ tasks[k].phase = "ready"
    /\ LoopFree
    /\ Context(Op(k)) = "loop"
    /\ tasks' = [tasks EXCEPT ![k].phase = "running"]
    /\ UNCHANGED <<rtvars, wsvars, twvars, ownvars>>

\* The operation that task k performs on the loop's thread returns.
Return(k) ==
    /\ tasks[k].phase = "running"
    /\ tasks' = At(k, tasks[k].step + 1)
    /\ UNCHANGED <<rtvars, wsvars, twvars, ownvars>>

\* The loop resumes task k at an operation that it hands over (to a child
\* process, the executor, a thread, a timer, the server object) and awaits: the
\* task is suspended and the loop's thread is free again.
Offload(k) ==
    /\ tasks[k].phase = "ready"
    /\ LoopFree
    /\ Context(Op(k)) # "loop"
    /\ tasks' = [tasks EXCEPT ![k].phase = "waiting"]
    /\ UNCHANGED <<rtvars, wsvars, twvars, ownvars>>

\* The operation that task k awaits is over. A probe that answered 200 ends
\* the poll, any other probe is followed by the sleep, and the sleep by the
\* next probe.
Complete(k) ==
    /\ tasks[k].phase = "waiting"
    /\ \E healthy \in BOOLEAN :
           LET n == tasks[k].step IN
           /\ (Op(k) # "probe" => healthy)
           /\ tasks' = IF Op(k) = "probe" /\ healthy THEN At(k, n + 2)
                       ELSE IF Op(k) = "sleep" THEN At(k, n - 1)
                       ELSE At(k, n + 1)
    /\ UNCHANGED <<rtvars, wsvars, twvars, ownvars>>

(* ------------- handles sharing one host and one engine ---------------- *)

\* The handles of the process, each created with no port and no name.
Handles == 1..MaxHandles

\* The values of uuid.uuid4().hex[:8] in "mcp-server-<suffix>".
ContainerNames == 1..MaxNames

\* The local port numbers.
Ports == 1..MaxPorts

\* No handle holds the port / bears the name.
NoHandle == 0

\* The handles after __init__: a DockerRuntime has drawn its container name, a
\* LocalRuntime has none; no port is chosen yet.
NewHandles ==
    {[kind |-> "local", container_name |-> None, port |-> None, pc |-> "new"]}
        \cup {[kind |-> "docker", container_name |-> n, port |-> None, pc |-> "new"] :
                 n \in ContainerNames}

\* No handle is in use.
NoHandles ==
    /\ handles = <<>>
    /\ bound = <<>>
    /\ containers = <<>>

\* _find_free_port: the system binds a socket to a port that nothing holds, the
\* number is read, and the socket is closed on return, so that the port is held
\* by nothing again.
FindFreePort(h) ==
    /\ handles[h].kind = "local" /\ handles[h].pc = "new"
    /\ \E p \in Ports :
           /\ bound[p] = NoHandle
           /\ handles' = [handles EXCEPT ![h].port = p, ![h].pc = "chosen"]
    /\ UNCHANGED <<bound, containers>>
    /\ UNCHANGED <<rtvars, wsvars, twvars, tasks>>

\* CServer().start(workdir, port) and the health poll of
\* http://localhost:<port>/health. On a port that nothing holds the server binds
\* it. On a port that another handle's server holds, start() raises or returns,
\* and when it returns the poll is answered by the server that holds the port.
ServerStart(h) ==
    /\ handles[h].kind = "local" /\ handles[h].pc = "chosen"
    /\ LET p == handles[h].port IN
       IF bound[p] = NoHandle
          THEN /\ bound' = [bound EXCEPT ![p] = h]
               /\ handles' = [handles EXCEPT ![h].pc = "live"]
          ELSE /\ \E raises \in BOOLEAN :
                      handles' = [handles EXCEPT
                                     ![h].pc = IF raises THEN "failed" ELSE "live"]
               /\ UNCHANGED bound
    /\ UNCHANGED containers
    /\ UNCHANGED <<rtvars, wsvars, twvars, tasks>>

\* docker run -d --name <container_name> --rm -P: the engine refuses a name
\* that an existing container bears; otherwise it creates the container and
\* publishes port 3000 on a host port that nothing holds, if there is one.
RunContainer(h) ==
    /\ handles[h].kind = "docker" /\ handles[h].pc = "new"
    /\ LET n == handles[h].container_name IN
       IF containers[n] # NoHandle \/ (\A p \in Ports : bound[p] # NoHandle)
          THEN /\ handles' = [handles EXCEPT ![h].pc = "failed"]
               /\ UNCHANGED <<bound, containers>>
          ELSE /\ \E p \in Ports :
                      /\ bound[p] = NoHandle
                      /\ bound' = [bound EXCEPT ![p] = h]
               /\ containers' = [containers EXCEPT ![n] = h]
               /\ handles' = [handles EXCEPT ![h].pc = "run"]
    /\ UNCHANGED <<rtvars, wsvars, twvars, tasks>>

\* docker port <container_name> 3000 and the health poll: host_port becomes the
\* port that the engine published for the container that bears the name.
ResolvePort(h) ==
    /\ handles[h].kind = "docker" /\ handles[h].pc = "run"
    /\ \E p \in Ports :
           /\ bound[p] = containers[handles[h].container_name]
           /\ handles' = [handles EXCEPT ![h].port = p, ![h].pc = "live"]
    /\ UNCHANGED <<bound, containers>>
    /\ UNCHANGED <<rtvars, wsvars, twvars, tasks>>

\* __aexit__ of a started handle: docker stop <container_name> ends and removes
\* the container that bears the name; CServer.stop() ends the handle's server.
\* The ports they held are free again.
HandleStop(h) ==
    /\ handles[h].pc = "live"
    /\ LET n == handles[h].container_name
           owner == IF handles[h].kind = "docker" THEN containers[n] ELSE h
       IN  /\ bound' = [p \in Ports |-> IF bound[p] = owner THEN NoHandle ELSE bound[p]]
           /\ containers' = IF handles[h].kind = "docker"
                               THEN [containers EXCEPT ![n] = NoHandle]
                               ELSE containers
    /\ handles' = [handles EXCEPT ![h].pc = "stopped"]
    /\ UNCHANGED <<rtvars, wsvars, twvars, tasks>>

(* --------------------------- specifications --------------------------- *)

\* The times at which the hosted server may start to answer 200.
HealthyTimes == (0..MaxHealthyAt) \cup {Never}

\* The handle after __init__: no container id, no server, url "", the port as
\* the caller gave it.
Init ==
    /\ backend \in {"docker", "local"}
    /\ \E p \in RequestedPorts :
         /\ host_port = IF backend = "docker" THEN p ELSE None
         /\ port = IF backend = "local" THEN p ELSE None
    /\ url = NoUrl
    /\ container_id = FALSE
    /\ server = FALSE
    /\ pc = "idle"
    /\ scope = "none"
    /\ starts = 0
    /\ stops = 0
    /\ log = <<>>
    /\ T = DefaultTimeout
    /\ t200 \in HealthyTimes
    /\ elapsed = 0
    /\ entry_port = None
    /\ publish = None
    /\ health_port = NoPoll
    /\ engine_ports = <<>>
    /\ launched = FALSE
    /\ probe200 = FALSE
    /\ released = FALSE
    /\ last = NoCall
    /\ desc = NoDescriptor
    /\ poll_error = NoError
    /\ NoWorkspace
    /\ NoInstances
    /\ tasks = <<>>
    /\ NoHandles

Next ==
    \/ StartCall
    \/ DockerInspect
    \/ DockerRun
    \/ DockerDiscover
    \/ LocalServerStart
    \/ HealthBegin
    \/ PollProbe
    \/ PollTimeout
    \/ StartReturn
    \/ DockerHealthTimeout
    \/ LocalHealthTimeout
    \/ ScopeExit
    \/ StopCall
    \/ CoderMcp
    \/ CoderMcpReadonly

Spec == Init /\ [][Next]_vars

\* A direct call of _wait_for_health(url, T) on a handle.
InitPoll ==
    /\ backend \in {"docker", "local"}
    /\ host_port = None
    /\ port = None
    /\ url = NoUrl
    /\ container_id = FALSE
    /\ server = FALSE
    /\ pc = "poll"
    /\ scope = "none"
    /\ starts = 0
    /\ stops = 0
    /\ log = <<>>
    /\ T \in 0..MaxT
    /\ t200 \in (0..(MaxT + 1)) \cup {Never}
    /\ elapsed = 0
    /\ entry_port = None
    /\ publish = None
    /\ health_port = NoPoll
    /\ engine_ports = <<>>
    /\ launched = FALSE
    /\ probe200 = FALSE
    /\ released = FALSE
    /\ last = NoCall
    /\ desc = NoDescriptor
    /\ poll_error = NoError
    /\ NoWorkspace
    /\ NoInstances
    /\ tasks = <<>>
    /\ NoHandles

NextPoll ==
    \/ PollProbe
    \/ PollTimeout

SpecPoll == InitPoll /\ [][NextPoll]_vars

\* A handle that is not used.
NoRuntime ==
    /\ backend = "local"
    /\ host_port = None
    /\ port = None
    /\ url = NoUrl
    /\ container_id = FALSE
    /\ server = FALSE
    /\ pc = "idle"
    /\ scope = "none"
    /\ starts = 0
    /\ stops = 0
    /\ log = <<>>
    /\ T = DefaultTimeout
    /\ t200 = Never
    /\ elapsed = 0
    /\ entry_port = None
    /\ publish = None
    /\ health_port = NoPoll
    /\ engine_ports = <<>>
    /\ launched = FALSE
    /\ probe200 = FALSE
    /\ released = FALSE
    /\ last = NoCall
    /\ desc = NoDescriptor
    /\ poll_error = NoError

\* A TempWorkspace as its caller constructs it.
InitWs ==
    /\ NoRuntime
    /\ template_dir \in {[exists |-> FALSE, tree |-> EmptyTree]}
                          \cup {[exists |-> TRUE, tree |-> t] : t \in TemplateTrees}
    /\ injections \in InjectionLists
    /\ copy_method \in {"copy", "clone"}
    /\ (copy_method = "clone" => Len(injections) <= MaxCloneInjections)
    /\ WsFresh
    /\ NoInstances
    /\ tasks = <<>>
    /\ NoHandles

NextWs ==
    \/ WsCreate
    \/ WsCopyTemplate
    \/ WsCloneTemplate
    \/ WsInject
    \/ WsGitInit
    \/ WsChmod

SpecWs == InitWs /\ [][NextWs]_vars

\* TempWorkspace instances that nobody has entered yet.
InitTw ==
    /\ NoRuntime
    /\ NoWorkspace
    /\ NoInstances
    /\ tasks = <<>>
    /\ NoHandles

NextTw ==
    \E i \in Instances :
        \/ TwSetup(i)
        \/ TwCleanup(i)

SpecTw == InitTw /\ [][NextTw]_vars

\* Handles and workspaces whose scopes are entered together.
InitLoop ==
    /\ NoRuntime
    /\ NoWorkspace
    /\ NoInstances
    /\ tasks \in [Tasks -> {[kind |-> c, step |-> 1, phase |-> "ready"] :
                               c \in {"docker", "local", "workspace"}}]
    /\ NoHandles

NextLoop ==
    \E k \in Tasks :
        \/ RunOnLoop(k)
        \/ Return(k)
        \/ Offload(k)
        \/ Complete(k)

SpecLoop == InitLoop /\ [][NextLoop]_vars

\* Handles created side by side, before any of them is started.
InitOwn ==
    /\ NoRuntime
    /\ NoWorkspace
    /\ NoInstances
    /\ tasks = <<>>
    /\ handles \in [Handles -> NewHandles]
    /\ bound = [p \in Ports |-> NoHandle]
    /\ containers = [n \in ContainerNames |-> NoHandle]

NextOwn ==
    \E h \in Handles :
        \/ FindFreePort(h)
        \/ ServerStart(h)
        \/ RunContainer(h)
        \/ ResolvePort(h)
        \/ HandleStop(h)

SpecOwn == InitOwn /\ [][NextOwn]_vars

(* ------------------------------- claims ------------------------------- *)

Range(q) == {q[i] : i \in 1..Len(q)}

\* e comes before f in q (both are there).
Before(q, e, f) == \E i, j \in 1..Len(q) : i < j /\ q[i] = e /\ q[j] = f

StartOk == last.op = "start" /\ last.raised = "no"

\* C1: stop() does not raise when it is called before any start(), after a
\* start() that failed, or after an earlier stop(); called on a handle that was
\* never started it issues no release request.
C1_StopNeverRaises ==
    (last.op = "stop" /\ last.after \in {"never_started", "start_failed", "stop"})
        => /\ last.raised = "no"
           /\ (last.after = "never_started" => ~last.issued)

\* C2: when an async-with scope on a handle has ended, a container or server
\* that its start() launched has been issued a stop request, also when start()
\* itself failed after the launch.
C2_ScopeReleases == (scope = "closed" /\ launched) => released

\* C3: when start() has returned without an error, a probe of the handle's
\* resolved port answered 200 after the launch, at a time the endpoint did answer
\* 200; no step of that start() failed and its poll did not time out.
C3_StartOkWasHealthy ==
    (pc = "idle" /\ StartOk)
        => /\ launched
           /\ probe200
           /\ t200 # Never /\ t200 <= elapsed
           /\ health_port = HealthUrlPort /\ health_port # None
           /\ \/ Before(log, "run", "poll")
              \/ Before(log, "server_start", "poll")
           /\ "failed" \notin Range(log)
           /\ "timeout" \notin Range(log)

\* C3 witness: a start() has returned without an error.
C3_Witness == pc = "idle" /\ StartOk /\ probe200 /\ launched

\* C4: a poll of an endpoint that never answers 200 raises the timeout error at
\* an elapsed time of at least T and less than T plus one polling interval,
\* however its probes fail.  (The claim's other half, a probe timeout smaller
\* than the polling interval, is the comparison ProbeTimeout < Interval.)
C4_TimeoutWindow ==
    (pc = "pollraised" /\ t200 = Never) => (T <= elapsed /\ elapsed < T + Interval)

\* C5: a poll of an endpoint that answers 200 from a time t < T on does not
\* raise the timeout error, and returns at an elapsed time of at least t and
\* less than T plus one polling interval.
C5_HealthyBeforeTimeout ==
    (t200 # Never /\ t200 < T)
        => /\ pc # "pollraised"
           /\ (pc = "pollok" => (t200 <= elapsed /\ elapsed < T + Interval))

\* C6: a descriptor from coder_mcp_readonly() allows exactly view_file,
\* list_directory, search_filenames and search_content and blocks nothing, so it
\* exposes exactly those four tools, whatever the handle's state and whatever
\* filter an earlier descriptor had.
C6_ReadonlyFilter ==
    desc.kind = "readonly"
        => /\ desc.filter.has_allowed
           /\ desc.filter.allowed =
                 {"view_file", "list_directory", "search_filenames", "search_content"}
           /\ ~desc.filter.has_blocked
           /\ desc.filter.blocked = {}
           /\ \A tool \in CoderToolName :
                 Exposed(tool, desc.filter)
                     <=> tool \in {"view_file", "list_directory", "search_filenames",
                                   "search_content"}

\* C6 witness: a read-only descriptor handed out by a started handle.
C6_Witness == desc.kind = "readonly" /\ StartOk

\* What a list-or-None argument asks for: its names, or nothing when it is
\* absent or empty.
Asked(a) == IF a.given THEN a.names ELSE {}

DockerStarted == backend = "docker" /\ starts > 0

\* C8: a DockerRuntime start() entered with a host port set publishes the
\* container on that port, polls that port, builds every endpoint address from
\* it, and runs no discovery step (no settling sleep, no port query).
C8_ExplicitPortReused ==
    (DockerStarted /\ Truthy(entry_port))
        => /\ host_port = entry_port
           /\ ("run" \in Range(log) => publish = entry_port)
           /\ ("poll" \in Range(log) => health_port = entry_port)
           /\ (desc.kind # "none" => desc.url = entry_port)
           /\ "sleep" \notin Range(log)
           /\ "port" \notin Range(log)
           /\ engine_ports = <<>>

\* C8 witness: such a start() has returned and an endpoint was asked for.
C8_Witness ==
    /\ DockerStarted /\ Truthy(entry_port) /\ StartOk
    /\ Before(log, "run", "poll") /\ desc.kind = "full"

\* C9: a DockerRuntime start() entered with no host port set publishes with -P,
\* runs the discovery (sleep, then port query) after the launch and before the
\* poll, and the port it resolves, polls and builds endpoint addresses from is
\* the host port the engine reported for 3000.
C9_DiscoveredPortIsEngines ==
    (DockerStarted /\ ~Truthy(entry_port))
        => /\ ("run" \in Range(log) => publish = PublishAll)
           /\ ("poll" \in Range(log)
                  => /\ Before(log, "run", "sleep")
                     /\ Before(log, "sleep", "port")
                     /\ Before(log, "port", "poll")
                     /\ Len(engine_ports) > 0
                     /\ host_port = engine_ports[1]
                     /\ health_port = host_port
                     /\ (desc.kind # "none" => desc.url = engine_ports[1]))

\* C9 witness: the engine reported two mappings with different host ports, the
\* start() has returned and an endpoint was asked for.
C9_Witness ==
    /\ DockerStarted /\ ~Truthy(entry_port) /\ StartOk
    /\ Len(engine_ports) = 2 /\ engine_ports[1] # engine_ports[2]
    /\ desc.kind = "full" /\ desc.url = 12

\* The injections whose destination is p or lies above p: they wrote p's place.
Covering(p) == {k \in 1..Len(injections) : IsPrefix(injections[k].dest, p)}

\* The injections whose destination lies below p: they needed p as a directory.
Below(p) == {k \in 1..Len(injections) :
                IsPrefix(p, injections[k].dest) /\ p # injections[k].dest}

Latest(S) == CHOOSE k \in S : \A j \in S : j <= k

\* The template with the injections applied on top, path by path: the entry of
\* the last injection that wrote p's place, a directory where a later injection
\* went below p, and the template's entry where no injection came.
TemplatePlusInjections(p) ==
    IF Covering(p) # {}
    THEN LET k == Latest(Covering(p))
         IN  IF \E m \in Below(p) : m > k THEN Dir("full")
             ELSE SourceTree(injections[k].shape, k)[Rel(p, injections[k].dest)]
    ELSE IF Below(p) # {} THEN Dir("full")
    ELSE template_dir.tree[p]

SameEntry(n, e) == n.kind = e.kind /\ n.data = e.data

\* C10: with an existing template and copy_method "copy", the directory _setup
\* returns holds, outside .git, exactly the template's tree with the injections
\* applied on top, and every entry of it, the root included, has mode 777.
C10_CopyYieldsTemplatePlusInjections ==
    (ws_pc = "ready" /\ template_dir.exists /\ copy_method = "copy")
        => /\ temp_dir
           /\ IsDir(fs, <<>>)
           /\ \A p \in Paths \ {GitPath} : SameEntry(fs[p], TemplatePlusInjections(p))
           /\ \A p \in Paths : Exists(fs, p) => fs[p].mode = "full"

\* C10 witness: a template with a directory a holding a file; the
\* first injection replaces a by an empty directory, the second puts a file at
\* a/b; the workspace is ready.
C10_Witness ==
    /\ ws_pc = "ready" /\ template_dir.exists /\ copy_method = "copy"
    /\ template_dir.tree[<<"a", "a">>].kind = "file"
    /\ Len(injections) = 2
    /\ injections[1] = [shape |-> "dir", dest |-> <<"a">>]
    /\ injections[2] = [shape |-> "file", dest |-> <<"a", "b">>]
    /\ ~Exists(fs, <<"a", "a">>)
    /\ fs[<<"a", "b">>] = File(2, "full")
    /\ fs[<<>>].mode = "full"

\* C11: with copy_method "clone" and an existing template that is no repository,
\* step 2 of _setup does not raise, and right after it temp_dir holds exactly
\* the template's tree: nothing of what the failed clone had left, and no .git
\* other than the template's own entry of that name.
C11_CloneFallsBackToCopy ==
    (/\ copy_method = "clone" /\ template_dir.exists
     /\ ~IsRepository(template_dir.tree)
     /\ ws_pc \notin {"new", "template"})
        => /\ ws_pc # "clone_raised"
           /\ (ws_pc = "inject" /\ ws_i = 0)
                 => /\ IsDir(fs, <<>>)
                    /\ \A p \in Paths \ {<<>>} : SameEntry(fs[p], template_dir.tree[p])

\* C11 witness: the template holds a directory a with a file in it; the failed
\* clone had left a .git directory and a file a; after step 2 the workspace
\* holds the template's a and no .git.
C11_Witness ==
    /\ copy_method = "clone" /\ template_dir.exists
    /\ ~IsRepository(template_dir.tree)
    /\ template_dir.tree[<<"a", "a">>].kind = "file"
    /\ ws_pc = "inject" /\ ws_i = 0
    /\ clone_left = "git_and_file"
    /\ IsDir(fs, <<"a">>) /\ fs[<<"a", "a">>].kind = "file"
    /\ ~Exists(fs, GitPath)

\* C12: between calls, the handle holds its resource reference (_container_id,
\* _server) only when the last call that completed on it is a start() that
\* returned; before any start(), after a start() that raised and after a stop()
\* it holds none.
C12_ReferenceOnlyWhileStarted ==
    (pc = "idle" /\ (container_id \/ server)) => CallerSaw = "start_ok"

\* C13: every descriptor coder_mcp()/coder_mcp_readonly() hands out is built on
\* a handle whose last completed call is a start() that returned, from a port
\* that was assigned: never from None, from the empty url or from port 0.
C13_EndpointOnlyWhenHealthy ==
    desc.kind # "none"
        => /\ CallerSaw = "start_ok"
           /\ desc.url \notin {None, NoUrl, 0}

\* C14: a pass of the poll's loop ends in one of three ways only: a probe that
\* got a 200 returns; a probe that failed (refused, timed out, another code) is
\* dropped while the time is below the timeout, and the loop goes on after one
\* interval's wait with no error raised; or, the time being up, the RuntimeError
\* that names the polled url and the timeout is raised.
C14_FailedProbesSwallowed ==
    [][pc = "poll"
         => \/ pc' = "pollok" /\ probe200'
            \/ /\ pc' = "poll" /\ elapsed < T
               /\ elapsed' >= elapsed + Interval
               /\ elapsed' <= elapsed + ProbeTimeout + Interval
               /\ poll_error' = NoError
            \/ /\ pc' = "pollraised" /\ elapsed >= T
               /\ poll_error'.raised
               /\ poll_error'.url = health_port /\ poll_error'.timeout = T]_vars

\* C14 witness: a start() whose poll made passes up to the timeout and raised
\* the error naming the port it polled and the default timeout.
C14_Witness ==
    /\ pc = "pollraised" /\ elapsed >= DefaultTimeout
    /\ poll_error.raised /\ poll_error.url \in AssignedPorts
    /\ poll_error.timeout = DefaultTimeout

\* The steps DockerRuntime.__aenter__ issues, in the code's order, for a start()
\* entered with or without a host port.
ProvisioningOrder ==
    IF Truthy(entry_port) THEN <<"chmod", "inspect", "run", "poll">>
    ELSE <<"chmod", "inspect", "run", "sleep", "port", "poll">>

IsProvisioningStep(e) == e \in Range(ProvisioningOrder)

Count(q, e) == Cardinality({i \in 1..Len(q) : q[i] = e})

\* C15: the steps a DockerRuntime start() has issued are, in order, a prefix of:
\* chmod, image check, launch, (settling sleep, port query when no host port was
\* given,) health poll; the image check, the launch and the port query are each
\* issued at most once; and a step that failed is the last thing the start()
\* did: it ended with an error.
C15_StepsInOrderNoRetry ==
    DockerStarted
        => /\ LET steps == SelectSeq(log, IsProvisioningStep)
              IN  /\ Len(steps) <= Len(ProvisioningOrder)
                  /\ steps = SubSeq(ProvisioningOrder, 1, Len(steps))
           /\ \A e \in {"inspect", "run", "port"} : Count(log, e) <= 1
           /\ \A i \in 1..Len(log) :
                 log[i] = "failed"
                    => /\ i = Len(log)
                       /\ pc = "idle"
                       /\ (last.op = "start" => last.raised # "no")

\* C15 witness: a start() without a host port whose port query failed: chmod,
\* image check, launch, sleep and port query were issued, and no poll.
C15_Witness ==
    /\ DockerStarted /\ ~Truthy(entry_port)
    /\ log = <<"chmod", "inspect", "run", "sleep", "port", "failed">>
    /\ last.op = "start" /\ last.raised = "PortDiscoveryFailed"

\* The current start() of a DockerRuntime ran into the poll's timeout.
DockerTimedOut == backend = "docker" /\ "timeout" \in Range(log) /\ pc = "idle"

\* C16: after a DockerRuntime start() whose health poll timed out, no stop
\* request has been issued and the handle still holds its container id; and a
\* stop() called then issues the stop request, unless the engine's client cannot
\* be run at all.
C16_TimeoutLeavesContainer ==
    DockerTimedOut
        => /\ (last.op = "start" => (container_id /\ launched /\ ~released))
           /\ (last.op = "stop" /\ last.after = "start_failed")
                 => (last.issued \/ last.raised = "spawn_error")

\* C16 witness: the poll timed out, start() raised, and the stop() that followed
\* issued the stop request.
C16_Witness ==
    /\ DockerTimedOut
    /\ last.op = "stop" /\ last.after = "start_failed" /\ last.issued
    /\ released /\ ~container_id

\* The start() of a DockerRuntime ended after the poll's timeout and the run of
\* "docker logs" that follows it; it is the last call that completed.
EndedAfterLogs ==
    /\ backend = "docker" /\ pc = "idle" /\ last.op = "start"
    /\ "logs" \in Range(log)

\* C17: when the poll timed out and the log retrieval failed (the engine call
\* exited non-zero or could not be started), start() raises the poll's timeout
\* error, as the poll raised it.
C17_TimeoutErrorSurvivesLogFailure ==
    (EndedAfterLogs /\ log[Len(log)] = "failed")
        => /\ last.raised = "HealthCheckTimeout"
           /\ poll_error = TimeoutError(health_port, T)

\* C18: when the poll timed out and the log retrieval succeeded, the error
\* start() raises is the timeout error with the container's log output attached.
C18_TimeoutErrorCarriesLogs ==
    (EndedAfterLogs /\ log[Len(log)] = "logs")
        => /\ last.raised = "HealthCheckTimeout"
           /\ poll_error.logs

\* C19: the stop() of a handle whose start() had returned lets no error of the
\* release out: whatever the engine's stop request or the server's stop() did,
\* __aexit__ returns.
C19_StopSwallowsReleaseErrors ==
    (last.op = "stop" /\ last.after = "start_ok") => last.raised = "no"

\* The first n injections whose destination is p or lies above p.
CoveringUpTo(p, n) == {k \in 1..n : IsPrefix(injections[k].dest, p)}

\* The first n injections whose destination lies below p.
BelowUpTo(p, n) == {k \in 1..n : IsPrefix(p, injections[k].dest) /\ p # injections[k].dest}

\* C20: whatever the template and the copy method, after the first ws_i
\* injections every path at or below a destination written so far holds what the
\* last of these injections covering it put there (nothing where its source has
\* nothing), or is a directory a later one of them went through; no entry of the
\* template or of an earlier injection is left at such a path.  (.git is looked
\* at before "git init" only.)
C20_LastInjectionWins ==
    ws_pc \in {"inject", "chmod", "ready"}
        => \A p \in Paths :
              (CoveringUpTo(p, ws_i) # {} /\ (p # GitPath \/ ws_pc = "inject"))
                 => LET k == Latest(CoveringUpTo(p, ws_i))
                    IN  IF \E j \in BelowUpTo(p, ws_i) : j > k
                        THEN IsDir(fs, p)
                        ELSE SameEntry(fs[p],
                               SourceTree(injections[k].shape, k)[Rel(p, injections[k].dest)])

\* C20 witness: the template holds a/b; the first injection puts a directory
\* with a file at a, the second an empty directory at a; the workspace is ready
\* and a is empty.
C20_Witness ==
    /\ ws_pc = "ready" /\ template_dir.exists
    /\ template_dir.tree[<<"a", "b">>].kind = "file"
    /\ Len(injections) = 2
    /\ injections[1] = [shape |-> "dir_with_file", dest |-> <<"a">>]
    /\ injections[2] = [shape |-> "dir", dest |-> <<"a">>]
    /\ IsDir(fs, <<"a">>)
    /\ ~Exists(fs, <<"a", "a">>) /\ ~Exists(fs, <<"a", "b">>)

\* The directories instance i refers to.
Referenced(i) == {temp_dir_ctx[i]} \ {NoDir}

\* C21: over any sequence of materialize/teardown calls on TempWorkspace
\* instances, an instance refers to at most one temporary directory, two
\* instances never refer to the same one, a directory whose creator's teardown
\* has run no longer exists, the instance refers to no directory after its
\* teardown, and a teardown with nothing materialized changes nothing.
C21_TeardownDeletesWhatWasCreated ==
    /\ \A i \in Instances : Cardinality(Referenced(i)) <= 1 /\ Referenced(i) \subseteq disk
    /\ \A i, j \in Instances : i # j => Referenced(i) \cap Referenced(j) = {}
    /\ torn = {}
    /\ (tw_last.op = "cleanup" => temp_dir_ctx[tw_last.inst] = NoDir)
    /\ (tw_last.op = "cleanup" /\ ~tw_last.had => tw_last.kept)

\* What _setup and _cleanup do keep: all of the above, except that a directory
\* can outlive its creator's teardown, and does so only when a removal of it was
\* tried and failed.
DeletedUnlessRemovalFailed ==
    /\ \A i \in Instances : Cardinality(Referenced(i)) <= 1 /\ Referenced(i) \subseteq disk
    /\ \A i, j \in Instances : i # j => Referenced(i) \cap Referenced(j) = {}
    /\ torn \subseteq rm_failed
    /\ (tw_last.op = "cleanup" => temp_dir_ctx[tw_last.inst] = NoDir)
    /\ (tw_last.op = "cleanup" /\ ~tw_last.had => tw_last.kept)

\* Two instances are materialized and one of them has been torn down.
TornDownBesideLive ==
    /\ tw_last.op = "cleanup" /\ tw_last.had /\ ~tw_last.kept
    /\ \E j \in Instances : j # tw_last.inst /\ temp_dir_ctx[j] \in disk
    /\ torn = {}

\* Task k is in the middle of an operation.
Executing(k) == tasks[k].phase \in {"running", "waiting"}

\* C22: no operation that blocks at the operating-system level runs on the
\* shared event loop: while a task executes such an operation the loop's thread
\* is not held by it, so the polls and lifecycle steps of the other tasks can
\* be resumed.
C22_NoBlockingOperationOnLoop ==
    \A k \in Tasks :
        (Executing(k) /\ Op(k) \in OsBlocking) => tasks[k].phase # "running"

\* Handle h has passed its container name to the engine and has not stopped.
UsesName(h) == handles[h].kind = "docker" /\ handles[h].pc \in {"run", "live", "failed"}

Live(h, kind) == handles[h].kind = kind /\ handles[h].pc = "live"

\* C23: under any interleaving of start() on handles created without a port or
\* a name, two live LocalRuntime handles are never launched on the same port,
\* and two DockerRuntime handles never use the same container name or the same
\* resolved host port.
C23_HandlesOwnDisjointResources ==
    \A g, h \in Handles :
        g # h =>
            /\ (Live(g, "local") /\ Live(h, "local")
                    => handles[g].port # handles[h].port)
            /\ (UsesName(g) /\ UsesName(h)
                    => handles[g].container_name # handles[h].container_name)
            /\ (Live(g, "docker") /\ Live(h, "docker")
                    => handles[g].port # handles[h].port)

====
